---- MODULE Spec2Model ----
(***************************************************************************)
(* Model of nexus-ops: parser/parse.go (ParseProject, extractTree,         *)
(* traverseTree, isRedundantChildren, sanitizeValue,                       *)
(* saveClassToFileWithDir) and cmd/generate.go (generateCmd).              *)
(*                                                                         *)
(* Go strings are modelled as sequences of one-character strings.          *)
(* Three specifications share the variables:                               *)
(*   SpecSan   sanitizeValue applied once and twice to a bounded string    *)
(*   SpecTree  traverseTree applied to a bounded concrete syntax tree      *)
(*   Spec      one run of `generate`: ParseProject walking a directory     *)
(***************************************************************************)
EXTENDS Integers, Sequences, FiniteSets, TLC

VARIABLES sx, sy, syy, spc,
          cnode, reduced, tpc,
          pc, pos, cur, log, disk, dirs, rootErr, result, exit

vars == <<sx, sy, syy, spc, cnode, reduced, tpc,
          pc, pos, cur, log, disk, dirs, rootErr, result, exit>>

sanVars == <<sx, sy, syy, spc>>
treeVars == <<cnode, reduced, tpc>>
walkVars == <<pc, pos, cur, log, disk, dirs, rootErr, result, exit>>

(***************************************************************************)
(* Bounds                                                                  *)
(***************************************************************************)
MaxLen == 4      \* longest sanitizer input
MaxDepth == 2    \* deepest nesting of scoped_identifier
MaxTop == 2      \* most top-level items in one source file
MaxFiles == 2    \* most directory entries visited in one walk

(***************************************************************************)
(* Characters                                                              *)
(***************************************************************************)
SP == " "
TAB == "\t"
LF == "\n"
CR == "\r"
FF == "\f"
BEL == "BEL"     \* U+0007, a control character that is not white space

\* unicode.IsSpace, as used by strings.Fields and strings.TrimSpace
IsSpace(c) == c \in {SP, TAB, LF, CR, FF}

\* unicode.IsControl
IsControl(c) == c \in {TAB, LF, CR, FF, BEL}

(***************************************************************************)
(* package strings                                                         *)
(***************************************************************************)
RECURSIVE ReplaceAll(_, _, _)
ReplaceAll(s, old, new) ==
  IF s = <<>> THEN <<>>
  ELSE (IF Head(s) = old THEN new ELSE <<Head(s)>>) \o ReplaceAll(Tail(s), old, new)

RECURSIVE FieldLen(_)
FieldLen(s) ==
  IF s = <<>> \/ IsSpace(Head(s)) THEN 0 ELSE 1 + FieldLen(Tail(s))

RECURSIVE Fields(_)
Fields(s) ==
  IF s = <<>> THEN <<>>
  ELSE IF IsSpace(Head(s)) THEN Fields(Tail(s))
  ELSE LET n == FieldLen(s)
       IN <<SubSeq(s, 1, n)>> \o Fields(SubSeq(s, n + 1, Len(s)))

RECURSIVE Join(_, _)
Join(elems, sep) ==
  IF elems = <<>> THEN <<>>
  ELSE IF Len(elems) = 1 THEN elems[1]
  ELSE elems[1] \o sep \o Join(Tail(elems), sep)

RECURSIVE TrimLeft(_)
TrimLeft(s) ==
  IF s # <<>> /\ IsSpace(Head(s)) THEN TrimLeft(Tail(s)) ELSE s

RECURSIVE TrimRight(_)
TrimRight(s) ==
  IF s # <<>> /\ IsSpace(s[Len(s)]) THEN TrimRight(SubSeq(s, 1, Len(s) - 1)) ELSE s

TrimSpace(s) == TrimRight(TrimLeft(s))

TrimSuffix(s, suffix) ==
  IF Len(s) >= Len(suffix) /\ SubSeq(s, Len(s) - Len(suffix) + 1, Len(s)) = suffix
  THEN SubSeq(s, 1, Len(s) - Len(suffix))
  ELSE s

(***************************************************************************)
(* sanitizeValue                                                           *)
(***************************************************************************)
\* a slip that forgets the Fields/Join pass
sanitizeValueNoFields(value) ==
  ReplaceAll(ReplaceAll(ReplaceAll(value, CR, <<>>), LF, <<>>), TAB, <<SP>>)

sanitizeValue(value) ==
  LET v1 == ReplaceAll(value, CR, <<>>)
      v2 == ReplaceAll(v1, LF, <<>>)
      v3 == ReplaceAll(v2, TAB, <<SP>>)
  IN Join(Fields(v3), <<SP>>)

(***************************************************************************)
(* Predicates on strings, used to state properties                         *)
(***************************************************************************)
Chars(s) == {s[i] : i \in 1..Len(s)}

NoDoubleSpace(s) == \A i \in 1..(Len(s) - 1) : ~(s[i] = SP /\ s[i + 1] = SP)

NoEdgeSpace(s) == s = <<>> \/ (~IsSpace(s[1]) /\ ~IsSpace(s[Len(s)]))

\* the characters of s that are not white space, in order
RECURSIVE Ink(_)
Ink(s) ==
  IF s = <<>> THEN <<>>
  ELSE (IF IsSpace(Head(s)) THEN <<>> ELSE <<Head(s)>>) \o Ink(Tail(s))

(***************************************************************************)
(* The concrete syntax tree of the parsing engine (sitter.Node).  A node   *)
(* is [type, named, text, children]: text is node.Content(source), the     *)
(* bytes the node spans; children holds every child, anonymous tokens      *)
(* included.                                                               *)
(***************************************************************************)
Content(node) == node.text

NamedChildren(node) == SelectSeq(node.children, LAMBDA c : c.named)

NamedChildCount(node) == Len(NamedChildren(node))

\* a slip that indexes all children, anonymous tokens included
ChildAt(node, i) == node.children[i]

NamedChild(node, i) == NamedChildren(node)[i]

(***************************************************************************)
(* isRedundantChildren                                                     *)
(***************************************************************************)
\* the loop of isRedundantChildren: compositeValue after the children i..n
RECURSIVE compositeValue(_, _)
compositeValue(node, i) ==
  IF i > NamedChildCount(node) THEN <<>>
  ELSE TrimSpace(Content(NamedChild(node, i))) \o <<".">> \o compositeValue(node, i + 1)

\* a slip that never judges children redundant
neverRedundant(node) == FALSE

isRedundantChildren(node) ==
  IF node.type = "scoped_identifier"
  THEN TrimSpace(Content(node)) = TrimSuffix(compositeValue(node, 1), <<".">>)
  ELSE FALSE

(***************************************************************************)
(* traverseTree                                                            *)
(***************************************************************************)
\* a slip that leaves interface declarations without a value too
RECURSIVE traverseTreeNoInterfaceValue(_)
traverseTreeNoInterfaceValue(node) ==
  LET value == IF node.type \notin {"class_declaration", "interface_declaration"}
               THEN sanitizeValue(TrimSpace(Content(node)))
               ELSE <<>>
  IN IF value # <<>> /\ isRedundantChildren(node)
     THEN [Type |-> node.type, Value |-> value, Children |-> <<>>]
     ELSE [Type |-> node.type, Value |-> value,
           Children |-> [i \in 1..NamedChildCount(node) |->
                           traverseTreeNoInterfaceValue(NamedChild(node, i))]]

RECURSIVE traverseTree(_)
traverseTree(node) ==
  LET value == IF node.type # "class_declaration"
               THEN sanitizeValue(TrimSpace(Content(node)))
               ELSE <<>>
  IN IF value # <<>> /\ isRedundantChildren(node)
     THEN [Type |-> node.type, Value |-> value, Children |-> <<>>]
     ELSE [Type |-> node.type, Value |-> value,
           Children |-> [i \in 1..NamedChildCount(node) |->
                           traverseTree(NamedChild(node, i))]]

(***************************************************************************)
(* Values the variables of a specification hold while another one runs     *)
(***************************************************************************)
Nil == "nil"

\* Go's zero value Node{}
ZeroNode == [Type |-> "", Value |-> <<>>, Children |-> <<>>]

NoCNode == [type |-> "", named |-> FALSE, text |-> <<>>, children |-> <<>>]

NoEntry == [kind |-> "none", dir |-> <<>>, tree |-> NoCNode, outcome |-> "none", ret |-> Nil]

SanIdle == sx = <<>> /\ sy = <<>> /\ syy = <<>> /\ spc = "idle"

TreeIdle == cnode = NoCNode /\ reduced = ZeroNode /\ tpc = "idle"

WalkIdle ==
  /\ pc = "idle" /\ pos = 0 /\ cur = NoEntry /\ log = <<>> /\ disk = {}
  /\ dirs = {} /\ rootErr = FALSE /\ result = Nil /\ exit = "none"

(***************************************************************************)
(* Concrete syntax trees the Java grammar yields, built bottom-up.  White  *)
(* space and comments are extras: they may sit between any two tokens; a   *)
(* comment is a named child, white space is no node at all.                *)
(***************************************************************************)
Token(type, text) == [type |-> type, named |-> FALSE, text |-> text, children |-> <<>>]

Named(type, text, children) ==
  [type |-> type, named |-> TRUE, text |-> text, children |-> children]

Identifier(c) == Named("identifier", <<c>>, <<>>)

BlockComment == Named("block_comment", <<"/", "*", "*", "/">>, <<>>)

\* what may stand between a scope and the "." that follows it
Gaps ==
  { [text |-> <<>>, nodes |-> <<>>],
    [text |-> <<SP>>, nodes |-> <<>>],
    [text |-> <<LF>>, nodes |-> <<>>],
    [text |-> BlockComment.text, nodes |-> <<BlockComment>>] }

\* scoped_identifier: seq(scope, ".", name)
ScopedIdentifier(scope, gap, name) ==
  Named("scoped_identifier",
        scope.text \o gap.text \o <<".">> \o name.text,
        <<scope>> \o gap.nodes \o <<Token(".", <<".">>), name>>)

Identifiers == {Identifier("a"), Identifier("b")}

RECURSIVE Names(_)
Names(depth) ==
  IF depth = 0 THEN Identifiers
  ELSE LET inner == Names(depth - 1)
       IN inner \cup {ScopedIdentifier(s, g, n) : s \in inner, g \in Gaps, n \in Identifiers}

KwPackage == <<"p", "a", "c", "k", "a", "g", "e">>
KwClass == <<"c", "l", "a", "s", "s">>
KwInterface == <<"i", "n", "t", "e", "r", "f", "a", "c", "e">>
KwEnum == <<"e", "n", "u", "m">>

PackageDeclaration(name) ==
  Named("package_declaration",
        KwPackage \o <<SP>> \o name.text \o <<";">>,
        <<Token("package", KwPackage), name, Token(";", <<";">>)>>)

Body(type) == Named(type, <<"{", "}">>, <<Token("{", <<"{">>), Token("}", <<"}">>)>>)

ClassDeclaration(c) ==
  Named("class_declaration",
        KwClass \o <<SP, c>> \o Body("class_body").text,
        <<Token("class", KwClass), Identifier(c), Body("class_body")>>)

InterfaceDeclaration(c) ==
  Named("interface_declaration",
        KwInterface \o <<SP, c>> \o Body("interface_body").text,
        <<Token("interface", KwInterface), Identifier(c), Body("interface_body")>>)

\* enum E{;class A{}}: a class declared one level below the top
EnumWithNestedClass ==
  LET inner == ClassDeclaration("A")
      decls == Named("enum_body_declarations", <<";">> \o inner.text,
                     <<Token(";", <<";">>), inner>>)
      body == Named("enum_body", <<"{">> \o decls.text \o <<"}">>,
                    <<Token("{", <<"{">>), decls, Token("}", <<"}">>)>>)
  IN Named("enum_declaration", KwEnum \o <<SP, "E">> \o body.text,
           <<Token("enum", KwEnum), Identifier("E"), body>>)

\* what error recovery leaves for text the grammar cannot derive: a stray "}"
ErrorNode == Named("ERROR", <<"}">>, <<Token("}", <<"}">>)>>)

TopLevelItems ==
  { PackageDeclaration(ScopedIdentifier(Identifier("a"), [text |-> <<>>, nodes |-> <<>>],
                                        Identifier("b"))),
    ClassDeclaration("A"),
    InterfaceDeclaration("I"),
    EnumWithNestedClass,
    ErrorNode }

\* the root node of a file: its items one per line
Program(items) ==
  Named("program",
        Join([i \in 1..Len(items) |-> items[i].text \o <<LF>>], <<>>),
        items)

Programs(n) == {Program(items) : items \in UNION {[1..k -> TopLevelItems] : k \in 0..n}}

RECURSIVE HasError(_)
HasError(node) ==
  \/ node.type = "ERROR"
  \/ \E i \in 1..Len(node.children) : HasError(node.children[i])

(***************************************************************************)
(* SpecTree: traverseTree on one concrete tree                             *)
(***************************************************************************)
TreeInputs ==
  Names(MaxDepth)
    \cup {PackageDeclaration(n) : n \in Names(MaxDepth)}
    \cup Programs(MaxTop)

InitTree ==
  /\ cnode \in TreeInputs
  /\ reduced = ZeroNode /\ tpc = "input"
  /\ SanIdle /\ WalkIdle

Traverse ==
  /\ tpc = "input"
  /\ reduced' = traverseTree(cnode)
  /\ tpc' = "done"
  /\ UNCHANGED <<cnode, sanVars, walkVars>>

NextTree == Traverse

SpecTree == InitTree /\ [][NextTree]_vars

(***************************************************************************)
(* Properties of traverseTree                                              *)
(***************************************************************************)
NamedKids(c) == SelectSeq(c.children, LAMBDA k : k.named)

\* the '.'-join of the trimmed texts of the named children
DotJoin(c) ==
  LET kids == NamedKids(c)
  IN Join([i \in 1..Len(kids) |-> TrimSpace(kids[i].text)], <<".">>)

\* a scoped_identifier whose non-empty trimmed text is the join of its children
JoinsItsChildren(c) ==
  /\ c.type = "scoped_identifier"
  /\ TrimSpace(c.text) # <<>>
  /\ TrimSpace(c.text) = DotJoin(c)

\* the reduced node r of concrete node c, and every reduced node below it,
\* taken with the concrete node it was made from, satisfies the stated value rule
RECURSIVE CollapsedAsStated(_, _)
CollapsedAsStated(r, c) ==
  /\ JoinsItsChildren(c) =>
       /\ r.Children = <<>>
       /\ r.Value = TrimSpace(c.text)
       /\ r.Value # <<>>
  /\ \A i \in 1..Len(r.Children) :
       /\ i <= Len(NamedKids(c))
       /\ CollapsedAsStated(r.Children[i], NamedKids(c)[i])

RECURSIVE CollapsedSanitized(_, _)
CollapsedSanitized(r, c) ==
  /\ JoinsItsChildren(c) =>
       /\ r.Children = <<>>
       /\ r.Value = sanitizeValue(TrimSpace(c.text))
       /\ r.Value # <<>>
       /\ Ink(r.Value) = Ink(c.text)
  /\ \A i \in 1..Len(r.Children) :
       /\ i <= Len(NamedKids(c))
       /\ CollapsedSanitized(r.Children[i], NamedKids(c)[i])

\* C6 as stated: a scoped_identifier whose trimmed text equals the '.'-join of
\* its named children's trimmed texts is reduced to a node without children
\* whose non-empty Value equals that text.
C6_CollapsedValueIsText == tpc = "done" => CollapsedAsStated(reduced, cnode)

\* C6 amended: such a node is reduced to a node without children whose
\* non-empty Value is sanitizeValue of that text (the text itself only when it
\* holds no line break, tab or run of spaces).
C6_CollapsedValueIsSanitizedText == tpc = "done" => CollapsedSanitized(reduced, cnode)

\* a.b on two lines, then .a: collapsed, and the value is not the text
C6_Witness ==
  /\ tpc = "done"
  /\ JoinsItsChildren(cnode)
  /\ LF \in Chars(cnode.text)
  /\ reduced.Children = <<>>
  /\ reduced.Value # TrimSpace(cnode.text)

RECURSIVE KeepsNamedChildren(_, _)
KeepsNamedChildren(r, c) ==
  LET kids == NamedKids(c)
  IN /\ r.Type = c.type
     /\ c.named
     /\ IF JoinsItsChildren(c)
        THEN TRUE
        ELSE /\ Len(r.Children) = Len(kids)
             /\ \A i \in 1..Len(kids) :
                  /\ r.Children[i] = traverseTree(kids[i])
                  /\ KeepsNamedChildren(r.Children[i], kids[i])

\* C7: a node that is not collapsed (not a scoped_identifier, or its trimmed
\* text differs from the '.'-join of its named children) keeps the reductions
\* of all its named children, in source order, and nothing else; anonymous
\* children are never represented; only the exact equality collapses a node.
C7_KeepsNamedChildren == tpc = "done" => KeepsNamedChildren(reduced, cnode)

\* a scoped_identifier with a comment inside keeps scope, comment and name
C7_Witness ==
  /\ tpc = "done"
  /\ cnode.type = "scoped_identifier"
  /\ TrimSpace(cnode.text) # DotJoin(cnode)
  /\ Len(cnode.children) = 4
  /\ Len(reduced.Children) = 3
  /\ reduced.Children[2].Type = "block_comment"

RECURSIVE ValuesFollowRule(_, _, _)
ValuesFollowRule(r, c, unvalued) ==
  /\ r.Type # ""
  /\ r.Value = IF c.type \in unvalued THEN <<>> ELSE sanitizeValue(TrimSpace(c.text))
  /\ (c.type \notin unvalued /\ TrimSpace(c.text) # <<>>) => r.Value # <<>>
  /\ \A i \in 1..Len(r.Children) :
       /\ i <= Len(NamedKids(c))
       /\ ValuesFollowRule(r.Children[i], NamedKids(c)[i], unvalued)

\* C9 as stated: every reduced node has a non-empty Type; class_declaration
\* and interface_declaration nodes have an empty Value; every other node's
\* Value is sanitizeValue of its trimmed text.
C9_DeclarationsUnvalued ==
  tpc = "done" =>
    ValuesFollowRule(reduced, cnode, {"class_declaration", "interface_declaration"})

\* C9 amended: every reduced node has a non-empty Type; class_declaration
\* nodes have an empty Value; every other node, interface_declaration
\* included, has the sanitizeValue of its trimmed text as Value.
C9_OnlyClassUnvalued ==
  tpc = "done" => ValuesFollowRule(reduced, cnode, {"class_declaration"})

\* a file with a class and an interface: only the class node has no value
C9_Witness ==
  /\ tpc = "done"
  /\ cnode.type = "program"
  /\ \E i, j \in 1..Len(reduced.Children) :
       /\ reduced.Children[i].Type = "class_declaration"
       /\ reduced.Children[i].Value = <<>>
       /\ reduced.Children[j].Type = "interface_declaration"
       /\ reduced.Children[j].Value # <<>>

(***************************************************************************)
(* extractTree                                                             *)
(***************************************************************************)
\* os.ReadFile fails or not (readOk); parser.Parse reports no error: it
\* returns the tree it recovered, ERROR nodes included
extractTree(file, readOk) ==
  IF ~readOk
  THEN [tree |-> ZeroNode, err |-> "read"]
  ELSE [tree |-> traverseTree(file), err |-> Nil]

(***************************************************************************)
(* saveClassToFileWithDir: the search for className                        *)
(***************************************************************************)
\* the inner loop: the first identifier child sets className and breaks
RECURSIVE scanClassChildren(_, _, _)
scanClassChildren(children, i, className) ==
  IF i > Len(children) THEN className
  ELSE IF children[i].Type = "identifier" THEN children[i].Value
  ELSE scanClassChildren(children, i + 1, className)

\* the outer loop: it runs over every child of the root, with no break
RECURSIVE scanChildren(_, _, _)
scanChildren(children, i, className) ==
  IF i > Len(children) THEN className
  ELSE IF children[i].Type \in {"class_declaration", "interface_declaration"}
  THEN scanChildren(children, i + 1,
                    scanClassChildren(children[i].Children, 1, className))
  ELSE scanChildren(children, i + 1, className)

\* a slip that looks for declarations at every depth
RECURSIVE scanDeep(_, _, _)
scanDeep(children, i, className) ==
  IF i > Len(children) THEN className
  ELSE IF children[i].Type \in {"class_declaration", "interface_declaration"}
  THEN scanDeep(children, i + 1,
                scanClassChildren(children[i].Children, 1, className))
  ELSE scanDeep(children, i + 1, scanDeep(children[i].Children, 1, className))

locateClassNameDeep(tree) == scanDeep(tree.Children, 1, <<>>)

locateClassName(tree) == scanChildren(tree.Children, 1, <<>>)

(***************************************************************************)
(* saveClassToFileWithDir: the output directory and file                   *)
(***************************************************************************)
JsonSuffix == <<".", "j", "s", "o", "n">>

\* filepath.Join("output", relativePath), as path components
outputDir(dir) == <<"output">> \o dir

\* the directories os.MkdirAll creates for a path: the path and its parents
\* when it succeeds, the first k of them when it fails at component k + 1
MkdirAllUpTo(path, k) == {SubSeq(path, 1, j) : j \in 1..k}

\* ioutil.WriteFile: the file is created or truncated, then written; a
\* failed write leaves what was written so far
WriteFile(files, dir, name, src, status) ==
  {f \in files : ~(f.dir = dir /\ f.name = name)}
    \cup {[dir |-> dir, name |-> name, src |-> src, status |-> status]}

(***************************************************************************)
(* Spec: generate -> ParseProject -> filepath.WalkDir                      *)
(***************************************************************************)
RelDirs == {<<>>, <<"pkg">>}

\* extractTree of every source file that can be read, computed once
Extracted == [t \in Programs(MaxTop) |-> extractTree(t, TRUE)]

\* the className saveClassToFileWithDir finds in each of them
ClassNameOf == [t \in Programs(MaxTop) |-> locateClassName(Extracted[t].tree)]

JavaFiles == {[kind |-> "java", dir |-> d, tree |-> t, outcome |-> "none", ret |-> Nil] :
                d \in RelDirs, t \in Programs(MaxTop)}

OtherFiles == {[kind |-> "other", dir |-> d, tree |-> NoCNode, outcome |-> "none", ret |-> Nil] :
                 d \in RelDirs}

Directories == {[kind |-> "dir", dir |-> d, tree |-> NoCNode, outcome |-> "none", ret |-> Nil] :
                  d \in RelDirs}

SaveFailures == {"rel", "mkdir", "json", "open", "write"}

\* ParseProject's return value, from the error filepath.WalkDir returned
ParseProjectResult(walkErr) ==
  IF walkErr # Nil THEN "erro ao percorrer diretorios" ELSE Nil

\* the callback has handled entry e with the given outcome and returns ret
Visited(e, outcome, ret) ==
  /\ pos' = pos + 1
  /\ cur' = [e EXCEPT !.outcome = outcome, !.ret = ret]
  /\ pc' = "visited"
  /\ result' = result

Logged(kind, at) == Append(log, [kind |-> kind, at |-> at])

Init ==
  /\ pc = "start" /\ pos = 0 /\ cur = NoEntry /\ log = <<>> /\ disk = {}
  /\ dirs = {} /\ rootErr = FALSE /\ result = Nil /\ exit = "none"
  /\ SanIdle /\ TreeIdle

\* os.Lstat(rootDir) fails: the callback is called once with the error, logs
\* it and returns nil, which is what WalkDir and then ParseProject return
WalkRootLstatError ==
  /\ pc = "start"
  /\ rootErr' = TRUE
  /\ log' = Logged("access", 0)
  /\ pc' = "returned"
  /\ result' = ParseProjectResult(Nil)
  /\ UNCHANGED <<pos, cur, disk, dirs, exit, sanVars, treeVars>>

\* the callback on rootDir itself: a directory, nil
WalkRootOk ==
  /\ pc = "start"
  /\ pc' = "walking"
  /\ UNCHANGED <<pos, cur, log, disk, dirs, rootErr, result, exit, sanVars, treeVars>>

\* os.ReadDir(rootDir) fails: the callback is called a second time with the
\* error, logs it and returns nil; no entry is visited
WalkRootReadDirError ==
  /\ pc = "walking" /\ pos = 0
  /\ rootErr' = TRUE
  /\ log' = Logged("access", 0)
  /\ pc' = "returned"
  /\ result' = ParseProjectResult(Nil)
  /\ UNCHANGED <<pos, cur, disk, dirs, exit, sanVars, treeVars>>

\* a directory below rootDir: nil; if it cannot be listed the second call
\* logs the error and returns nil
VisitDirectory ==
  /\ pc = "walking" /\ pos < MaxFiles
  /\ \E e \in Directories, listed \in BOOLEAN :
       /\ Visited(e, IF listed THEN "dir" ELSE "direrr", Nil)
       /\ log' = IF listed THEN log ELSE Logged("access", pos')
  /\ UNCHANGED <<disk, dirs, rootErr, exit, sanVars, treeVars>>

\* a file whose extension is not .java
VisitOtherFile ==
  /\ pc = "walking" /\ pos < MaxFiles
  /\ \E e \in OtherFiles :
       /\ Visited(e, "skipped", Nil)
  /\ UNCHANGED <<log, disk, dirs, rootErr, exit, sanVars, treeVars>>

\* a .java file extractTree cannot read
VisitJavaReadError ==
  /\ pc = "walking" /\ pos < MaxFiles
  /\ \E e \in JavaFiles :
       /\ extractTree(e.tree, FALSE).err # Nil
       /\ Visited(e, "read", Nil)
       /\ log' = Logged("parse", pos')
  /\ UNCHANGED <<disk, dirs, rootErr, exit, sanVars, treeVars>>

\* a .java file in which saveClassToFileWithDir finds no className
VisitJavaNotFound ==
  /\ pc = "walking" /\ pos < MaxFiles
  /\ \E e \in JavaFiles :
       /\ ClassNameOf[e.tree] = <<>>
       /\ Visited(e, "notfound", Nil)
       /\ log' = Logged("notfound", pos')
  /\ UNCHANGED <<disk, dirs, rootErr, exit, sanVars, treeVars>>

\* a .java file with a className, and a step of saveClassToFileWithDir fails
VisitJavaSaveError ==
  /\ pc = "walking" /\ pos < MaxFiles
  /\ \E e \in JavaFiles, failure \in SaveFailures :
       LET className == ClassNameOf[e.tree]
           out == outputDir(e.dir)
       IN /\ className # <<>>
          /\ Visited(e, failure, Nil)
          /\ log' = Logged("save", pos')
          /\ CASE failure = "rel" -> dirs' = dirs /\ disk' = disk
               [] failure = "mkdir" ->
                    /\ \E k \in 0..(Len(out) - 1) : dirs' = dirs \cup MkdirAllUpTo(out, k)
                    /\ disk' = disk
               [] failure \in {"json", "open"} ->
                    /\ dirs' = dirs \cup MkdirAllUpTo(out, Len(out))
                    /\ disk' = disk
               [] failure = "write" ->
                    /\ dirs' = dirs \cup MkdirAllUpTo(out, Len(out))
                    /\ disk' = WriteFile(disk, out, className \o JsonSuffix, pos', "partial")
  /\ UNCHANGED <<rootErr, exit, sanVars, treeVars>>

\* a .java file with a className, saved
VisitJavaSaved ==
  /\ pc = "walking" /\ pos < MaxFiles
  /\ \E e \in JavaFiles :
       LET className == ClassNameOf[e.tree]
           out == outputDir(e.dir)
       IN /\ className # <<>>
          /\ Visited(e, "saved", Nil)
          /\ dirs' = dirs \cup MkdirAllUpTo(out, Len(out))
          /\ disk' = WriteFile(disk, out, className \o JsonSuffix, pos', "full")
          /\ log' = Logged("saved", pos')
  /\ UNCHANGED <<rootErr, exit, sanVars, treeVars>>

\* back in filepath.WalkDir: it goes on to the next entry if the callback
\* returned nil, and returns the callback's error otherwise
WalkDirNext ==
  /\ pc = "visited"
  /\ IF cur.ret = Nil
     THEN pc' = "walking" /\ result' = result
     ELSE pc' = "returned" /\ result' = ParseProjectResult(cur.ret)
  /\ cur' = NoEntry
  /\ UNCHANGED <<pos, log, disk, dirs, rootErr, exit, sanVars, treeVars>>

\* no entry is left: WalkDir returns nil
WalkDone ==
  /\ pc = "walking"
  /\ pc' = "returned"
  /\ result' = ParseProjectResult(Nil)
  /\ UNCHANGED <<pos, cur, log, disk, dirs, rootErr, exit, sanVars, treeVars>>

\* generateCmd.Run after ParseProject returned
GenerateExit ==
  /\ pc = "returned"
  /\ exit' = IF result # Nil THEN "fatal" ELSE "success"
  /\ pc' = "exited"
  /\ UNCHANGED <<pos, cur, log, disk, dirs, rootErr, result, sanVars, treeVars>>

Next ==
  \/ WalkRootLstatError
  \/ WalkRootOk
  \/ WalkRootReadDirError
  \/ VisitDirectory
  \/ VisitOtherFile
  \/ VisitJavaReadError
  \/ VisitJavaNotFound
  \/ VisitJavaSaveError
  \/ VisitJavaSaved
  \/ WalkDirNext
  \/ WalkDone
  \/ GenerateExit

Spec == Init /\ [][Next]_vars

(***************************************************************************)
(* Properties of a run                                                     *)
(***************************************************************************)
\* the output files that hold what was written for the entry visited i-th
ArtifactsOf(i) == {f \in disk : f.src = i}

\* the callback has just handled a .java file
JavaVisited == pc = "visited" /\ cur.kind = "java"

IsDeclaration(n) == n.Type \in {"class_declaration", "interface_declaration"}

HasIdentifier(n) == \E j \in 1..Len(n.Children) : n.Children[j].Type = "identifier"

\* the top-level declarations of a reduced tree that have a name
NamedDeclarations(tree) ==
  {i \in 1..Len(tree.Children) :
     IsDeclaration(tree.Children[i]) /\ HasIdentifier(tree.Children[i])}

\* the Value of the first identifier child of reduced node n
FirstIdentifier(n) ==
  LET j == CHOOSE j \in 1..Len(n.Children) :
             /\ n.Children[j].Type = "identifier"
             /\ \A k \in 1..(j - 1) : n.Children[k].Type # "identifier"
  IN n.Children[j].Value

\* the first top-level class or interface declaration of a reduced tree
FirstDeclaration(tree) ==
  LET i == CHOOSE i \in 1..Len(tree.Children) :
             /\ IsDeclaration(tree.Children[i])
             /\ \A k \in 1..(i - 1) : ~IsDeclaration(tree.Children[k])
  IN tree.Children[i]

\* C1: ParseProject returns a non-nil error, and generate exits fatally,
\* exactly when the walk reported an error for rootDir itself.
C1_RootErrorIsReturned ==
  /\ pc \in {"returned", "exited"} => (rootErr <=> result # Nil)
  /\ pc = "exited" => (rootErr <=> exit = "fatal")

\* C2: a .java file that could not be read or saved is logged as an error,
\* has no artifact, and neither stops the walk nor changes the nil result.
C2_FailedFileLeavesNothing ==
  (JavaVisited /\ cur.outcome \in {"read"} \cup SaveFailures) =>
    /\ ArtifactsOf(pos) = {}
    /\ log # <<>>
    /\ log[Len(log)].at = pos
    /\ log[Len(log)].kind \in {"parse", "save"}
    /\ cur.ret = Nil
    /\ result = Nil

\* C3: a .java file whose tree holds a syntax-error region has no artifact
\* once the callback has handled it.
C3_MalformedFileLeavesNothing ==
  (JavaVisited /\ cur.outcome \in {"saved", "notfound"} /\ HasError(cur.tree)) =>
    ArtifactsOf(pos) = {}

\* C4: the artifact of a saved file is named after the first identifier child
\* of the first top-level class or interface declaration of its reduced tree.
C4_NamedAfterFirstDeclaration ==
  (JavaVisited /\ cur.outcome = "saved") =>
    \A f \in ArtifactsOf(pos) :
      f.name = FirstIdentifier(FirstDeclaration(Extracted[cur.tree].tree)) \o JsonSuffix

\* C5: a .java file handled without a read or save failure has as many
\* artifacts as its reduced tree has named top-level declarations.
C5_OneArtifactPerDeclaration ==
  (JavaVisited /\ cur.outcome \in {"saved", "notfound"}) =>
    Cardinality(ArtifactsOf(pos)) = Cardinality(NamedDeclarations(Extracted[cur.tree].tree))

\* the step in which the callback handles a readable .java file whose reduced
\* root has no named class or interface declaration among its children
HandlesFileWithoutDeclaration ==
  /\ pc = "walking" /\ pc' = "visited"
  /\ cur'.kind = "java" /\ cur'.outcome # "read"
  /\ NamedDeclarations(Extracted[cur'.tree].tree) = {}

\* C10: handling a readable .java file without a named top-level class or
\* interface declaration writes no file, creates no directory, logs one
\* 'not found' entry and no error entry, and the callback returns nil, so
\* the walk goes on and ParseProject's result stays nil.
C10_NotFoundWritesNothing ==
  [][HandlesFileWithoutDeclaration =>
       /\ disk' = disk
       /\ dirs' = dirs
       /\ log' = Append(log, [kind |-> "notfound", at |-> pos'])
       /\ cur'.outcome = "notfound"
       /\ cur'.ret = Nil
       /\ result' = Nil]_vars

\* a file that declares its only class inside an enum has been handled
C10_Witness ==
  /\ JavaVisited
  /\ cur.outcome = "notfound"
  /\ \E i \in 1..Len(cur.tree.children) : cur.tree.children[i].type = "enum_declaration"
  /\ log[Len(log)] = [kind |-> "notfound", at |-> pos]
  /\ ArtifactsOf(pos) = {}

(***************************************************************************)
(* SpecSan: sanitizeValue(x), then sanitizeValue of the result             *)
(***************************************************************************)
Alphabet == {"a", SP, TAB, LF, CR, FF, BEL}

Strings(n) == UNION {[1..k -> Alphabet] : k \in 0..n}

InitSan ==
  /\ sx \in Strings(MaxLen)
  /\ sy = <<>> /\ syy = <<>> /\ spc = "input"
  /\ TreeIdle /\ WalkIdle

Sanitize ==
  /\ spc = "input"
  /\ sy' = sanitizeValue(sx)
  /\ spc' = "once"
  /\ UNCHANGED <<sx, syy, treeVars, walkVars>>

SanitizeAgain ==
  /\ spc = "once"
  /\ syy' = sanitizeValue(sy)
  /\ spc' = "twice"
  /\ UNCHANGED <<sx, sy, treeVars, walkVars>>

NextSan == Sanitize \/ SanitizeAgain

SpecSan == InitSan /\ [][NextSan]_vars

\* C8 as stated: the result of sanitizeValue holds no CR, LF, tab or any other
\* control character, no two consecutive spaces and no leading or trailing
\* white space, and sanitizing it again changes nothing.
C8_NoControlChars ==
  /\ spc \in {"once", "twice"} =>
       /\ \A c \in Chars(sy) : ~IsControl(c)
       /\ NoDoubleSpace(sy)
       /\ NoEdgeSpace(sy)
  /\ spc = "twice" => syy = sy

\* C8 amended: the result of sanitizeValue holds no CR, LF, tab or other
\* white-space character except single spaces between fields, no leading or
\* trailing white space, and keeps every character that is not white space
\* (control characters such as BEL included) in order; sanitizing it again
\* changes nothing.
C8_SanitizeIdempotent ==
  /\ spc \in {"once", "twice"} =>
       /\ \A c \in Chars(sy) : IsSpace(c) => c = SP
       /\ NoDoubleSpace(sy)
       /\ NoEdgeSpace(sy)
       /\ Ink(sy) = Ink(sx)
  /\ spc = "twice" => syy = sy

\* an input with line breaks, a tab, a run of spaces, sanitized twice
C8_Witness ==
  /\ spc = "twice"
  /\ {LF, TAB} \subseteq Chars(sx)
  /\ SP \in Chars(sy)
  /\ Len(sy) < Len(sx)

====
